---- MODULE Spec2Model ----
(***************************************************************************)
(* The tri-state cellular automaton of tri_state_CA.py: rule_in_base and   *)
(* lookup_table (the rule decoder) and class TriStateCA (the engine).      *)
(*                                                                         *)
(* Python lists are objects with an identity: the model keeps a heap from  *)
(* references to list contents, and every attribute that holds a list      *)
(* holds a reference.  Two attributes that name the same list share its    *)
(* later in-place changes.                                                 *)
(***************************************************************************)
EXTENDS Integers, Sequences, FiniteSets, TLC

VARIABLES
    heap,     \* reference -> contents of the list object it names
    self,     \* engine name -> the attributes of that TriStateCA instance
    raised,   \* the exception the most recent call raised, or None
    built,    \* observer: engine name -> <<rule number, contents of the list>> given to __init__
    log,      \* observer: engine name -> the time_steps of its evolve calls that returned
    arg,      \* the rule number given to a stand-alone lookup_table call
    ret,      \* what that call returned or raised
    frame     \* a stand-alone rule_in_base call: its arguments, locals and position

vars == <<heap, self, raised, built, log, arg, ret, frame>>

(*************************** bounds of the model ***************************)

\* Longest list the caller builds.
MaxLen == 2

\* Most configurations one engine appends to its history.
MaxSteps == 2

\* Most evolve calls recorded in an engine's log.
MaxCalls == 2

\* How far outside [0, MaxRule] the rule numbers are drawn.
RuleMargin == 2

\* Largest rule number and largest base given to rule_in_base alone.
MaxNumber == 27

MaxBase == 3

\* Most iterations of the while loop of rule_in_base that are followed.
MaxDigits == 6

(***************************** Python values *******************************)

\* A Python value given as time_steps.  kind "int": val is the integer;
\* "float": a finite float, val is twice its value; "nan", "inf": val is
\* the sign; "str": a non-numeric string; "NoneType": None.
PyVal(kind, val) == [kind |-> kind, val |-> val]

PyInt(n) == PyVal("int", n)

\* Exceptions: the class and the message.
Exc(type, msg) == [type |-> type, msg |-> msg]

None == Exc("None", "")

\* The repository raises ValueError for all three of its error kinds; the
\* message tells them apart.
InvalidRule == Exc("ValueError", "rule_number must be an int between 0 and 19682,inclusive")

InvalidConfiguration == Exc("ValueError", "initial condition must be a list of 0s, 1sand 2s")

InvalidStepCount == Exc("ValueError", "time_steps must be a non-negative integer")

InvalidBase == Exc("ValueError", "base must be a positive int")

\* Exceptions the interpreter raises.
TypeError == Exc("TypeError", "")

OverflowError == Exc("OverflowError", "")

KeyError == Exc("KeyError", "")

ZeroDivisionError == Exc("ZeroDivisionError", "")

\* The outcome of an expression: the exception it raised (None: it
\* returned) and the value it returned.
Returns(v) == [raised |-> None, value |-> v]

Raises(e) == [raised |-> e, value |-> <<>>]

\* A call not made yet.
Pending == Raises(Exc("Pending", ""))

\* No rule_in_base call of its own is under way.
NoFrame == [pc |-> "none"]

\* x[k] on a Python list: a negative index counts from the end.
PyIndex(x, k) == IF k < 0 THEN x[Len(x) + k + 1] ELSE x[k + 1]

\* [0] * (n - 1): the padding one zero short.
Zeros_one_short(n) == IF n > 1 THEN [i \in 1..(n - 1) |-> 0] ELSE <<>>

\* [0] * n: the empty list when n <= 0.
Zeros(n) == IF n > 0 THEN [i \in 1..n |-> 0] ELSE <<>>

\* time_steps < 0.
PyLessThanZero(x) ==
    CASE x.kind \in {"int", "float", "inf"} -> Returns(x.val < 0)
      [] x.kind = "nan" -> Returns(FALSE)
      [] OTHER -> Raises(TypeError)

\* int(time_steps): truncates a finite float toward zero.
PyToInt(x) ==
    CASE x.kind = "int" -> Returns(x.val)
      [] x.kind = "float" ->
            Returns(IF x.val >= 0 THEN x.val \div 2 ELSE -((-x.val) \div 2))
      [] x.kind = "nan" -> Raises(Exc("ValueError", "cannot convert float NaN to integer"))
      [] x.kind = "inf" -> Raises(OverflowError)
      [] x.kind = "str" -> Raises(Exc("ValueError", "invalid literal for int() with base 10"))
      [] OTHER -> Raises(TypeError)

(****************************** rule decoder *******************************)

MaxRule == 19682

neighborhoods ==
    << <<0, 0>>, <<0, 1>>, <<0, 2>>, <<1, 0>>, <<1, 1>>, <<1, 2>>,
       <<2, 0>>, <<2, 1>>, <<2, 2>> >>

\* The loop with append in place of insert(0, ...): least significant digit first.
RECURSIVE rule_in_base_loop_appends(_, _, _, _)
rule_in_base_loop_appends(rule_number_in_base, dividend, quotient, base) ==
    IF quotient >= base
      THEN LET q == dividend \div base
           IN  rule_in_base_loop_appends(rule_number_in_base \o <<dividend % base>>, q, q, base)
      ELSE rule_number_in_base \o <<quotient>>

\* The while loop of rule_in_base and the insert that follows it.
RECURSIVE rule_in_base_loop(_, _, _, _)
rule_in_base_loop(rule_number_in_base, dividend, quotient, base) ==
    IF quotient >= base
      THEN LET q == dividend \div base
           IN  rule_in_base_loop(<<dividend % base>> \o rule_number_in_base, q, q, base)
      ELSE <<quotient>> \o rule_number_in_base

\* rule_in_base without the padding to key_number digits.
rule_in_base_no_padding(rule_number, base, key_number) ==
    IF base < 0
      THEN Raises(InvalidBase)
      ELSE Returns(rule_in_base_loop(<<>>, rule_number, rule_number, base))

rule_in_base(rule_number, base, key_number) ==
    IF base < 0
      THEN Raises(InvalidBase)
      ELSE LET digits == rule_in_base_loop(<<>>, rule_number, rule_number, base)
           IN  Returns(Zeros(key_number - Len(digits)) \o digits)

\* The zip stopping one pair early: the last key is missing.
DictZip_drops_last(keys, values) ==
    LET n == IF Len(keys) < Len(values) THEN Len(keys) - 1 ELSE Len(values) - 1
        last(k) == CHOOSE i \in 1..n : keys[i] = k /\ \A j \in (i + 1)..n : keys[j] # k
    IN  [k \in {keys[i] : i \in 1..n} |-> values[last(k)]]

\* dict(zip(keys, values)): zip stops at the shorter, a repeated key keeps
\* its last value.
DictZip(keys, values) ==
    LET n == IF Len(keys) < Len(values) THEN Len(keys) ELSE Len(values)
        last(k) == CHOOSE i \in 1..n : keys[i] = k /\ \A j \in (i + 1)..n : keys[j] # k
    IN  [k \in {keys[i] : i \in 1..n} |-> values[last(k)]]

\* The decoder without the upper end of the range check.
lookup_table_no_upper_bound(rule_number) ==
    IF rule_number < 0
      THEN Raises(InvalidRule)
      ELSE LET rule_number_in_base == rule_in_base(rule_number, 3, Len(neighborhoods))
           IN  Returns(DictZip(neighborhoods, rule_number_in_base.value))

lookup_table(rule_number) ==
    IF rule_number < 0 \/ rule_number > MaxRule
      THEN Raises(InvalidRule)
      ELSE LET rule_number_in_base == rule_in_base(rule_number, 3, Len(neighborhoods))
           IN  IF rule_number_in_base.raised # None
                 THEN rule_number_in_base
                 ELSE Returns(DictZip(neighborhoods, rule_number_in_base.value))

(******************************** the heap *********************************)

\* The list the caller passes to __init__, and keeps.
CallerRef == <<"caller", 0>>

\* The t-th list engine e allocates: its copy of the initial condition
\* (t = 0) and the new_configuration of its t-th step.
EngineRef(e, t) == <<e, t>>

Engines == {"a", "b"}

\* What engine e shows in st = [self, heap, ...]: the contents of the lists
\* its attributes name.
ViewIn(st, e) ==
    [history |-> [t \in 1..Len(st.self[e].spacetime) |-> st.heap[st.self[e].spacetime[t]]],
     current |-> st.heap[st.self[e].current_configuration],
     initial |-> st.heap[st.self[e].initial]]

View(e) == ViewIn([self |-> self, heap |-> heap], e)

History(e) == View(e).history

Current(e) == View(e).current

Initial(e) == View(e).initial

(******************************* TriStateCA ********************************)

\* The check with 3 let through.
ValidCells_too_wide(initial_condition) ==
    \A k \in 1..Len(initial_condition) : initial_condition[k] \in {0, 1, 2, 3}

\* The for loop at the head of __init__.
ValidCells(initial_condition) ==
    \A k \in 1..Len(initial_condition) : initial_condition[k] \in {0, 1, 2}

\* __init__ with the history left empty.
InitCall_history_empty(e, rule_number) ==
    LET initial_condition == heap[CallerRef]
        table == lookup_table(rule_number)
    IN  IF ~ValidCells(initial_condition)
          THEN [raised |-> InvalidConfiguration, self |-> self, heap |-> heap]
          ELSE IF table.raised # None
            THEN [raised |-> table.raised, self |-> self, heap |-> heap]
            ELSE [raised |-> None,
                  self |-> (e :> [lookup_table |-> table.value,
                                  initial |-> CallerRef,
                                  spacetime |-> <<>>,
                                  current_configuration |-> EngineRef(e, 0),
                                  length |-> Len(initial_condition)]) @@ self,
                  heap |-> (EngineRef(e, 0) :> initial_condition) @@ heap]

\* TriStateCA(rule_number, C) with C the caller's list: the outcome as
\* [raised, self, heap].
InitCall(e, rule_number) ==
    LET initial_condition == heap[CallerRef]
        table == lookup_table(rule_number)
    IN  IF ~ValidCells(initial_condition)
          THEN [raised |-> InvalidConfiguration, self |-> self, heap |-> heap]
          ELSE IF table.raised # None
            THEN [raised |-> table.raised, self |-> self, heap |-> heap]
            ELSE [raised |-> None,
                  self |-> (e :> [lookup_table |-> table.value,
                                  initial |-> CallerRef,
                                  spacetime |-> <<CallerRef>>,
                                  current_configuration |-> EngineRef(e, 0),
                                  length |-> Len(initial_condition)]) @@ self,
                  heap |-> (EngineRef(e, 0) :> initial_condition) @@ heap]

\* The inner loop with a fixed boundary: cell 0 has a left neighbour 0.
RECURSIVE new_configuration_fixed_boundary(_, _, _, _)
new_configuration_fixed_boundary(table, current, length, i) ==
    IF i >= length
      THEN Returns(<<>>)
      ELSE LET neighborhood == <<IF i = 0 THEN 0 ELSE PyIndex(current, i - 1),
                                 PyIndex(current, i)>>
               rest == new_configuration_fixed_boundary(table, current, length, i + 1)
           IN  Returns(<<table[neighborhood]>> \o rest.value)

\* The inner for loop of evolve over i in range(length), from position i:
\* the new configuration, or the KeyError of a lookup that misses.
RECURSIVE new_configuration(_, _, _, _)
new_configuration(table, current, length, i) ==
    IF i >= length
      THEN Returns(<<>>)
      ELSE LET neighborhood == <<PyIndex(current, i - 1), PyIndex(current, i)>>
           IN  IF neighborhood \notin DOMAIN table
                 THEN Raises(KeyError)
                 ELSE LET rest == new_configuration(table, current, length, i + 1)
                      IN  IF rest.raised # None
                            THEN rest
                            ELSE Returns(<<table[neighborhood]>> \o rest.value)

\* The outer loop writing each step into the list current_configuration
\* names, in place, and appending that same list again.
RECURSIVE evolve_loop_in_place(_, _, _)
evolve_loop_in_place(st, e, n) ==
    IF n <= 0
      THEN st
      ELSE LET me == st.self[e]
               new == new_configuration(me.lookup_table, st.heap[me.current_configuration],
                                        me.length, 0)
               ref == me.current_configuration
           IN  evolve_loop_in_place(
                 [raised |-> None,
                  self |-> [st.self EXCEPT ![e].spacetime = Append(@, ref)],
                  heap |-> [st.heap EXCEPT ![ref] = new.value]],
                 e, n - 1)

\* The loop appending to the history the configuration the step started
\* from, in place of the one it computed.
RECURSIVE evolve_loop_appends_old(_, _, _)
evolve_loop_appends_old(st, e, n) ==
    IF n <= 0
      THEN st
      ELSE LET me == st.self[e]
               new == new_configuration(me.lookup_table, st.heap[me.current_configuration],
                                        me.length, 0)
               ref == EngineRef(e, Len(me.spacetime))
           IN  IF new.raised # None
                 THEN [st EXCEPT !.raised = new.raised]
                 ELSE evolve_loop_appends_old(
                        [raised |-> None,
                         self |-> [st.self EXCEPT ![e].current_configuration = ref,
                                                  ![e].spacetime =
                                                      Append(@, me.current_configuration)],
                         heap |-> (ref :> new.value) @@ st.heap],
                        e, n - 1)

\* The outer for loop of evolve: n more steps of engine e from state
\* st = [raised, self, heap].  A step that raises leaves the steps before it.
RECURSIVE evolve_loop(_, _, _)
evolve_loop(st, e, n) ==
    IF n <= 0
      THEN st
      ELSE LET me == st.self[e]
               new == new_configuration(me.lookup_table, st.heap[me.current_configuration],
                                        me.length, 0)
               ref == EngineRef(e, Len(me.spacetime))
           IN  IF new.raised # None
                 THEN [st EXCEPT !.raised = new.raised]
                 ELSE evolve_loop(
                        [raised |-> None,
                         self |-> [st.self EXCEPT ![e].current_configuration = ref,
                                                  ![e].spacetime = Append(@, ref)],
                         heap |-> (ref :> new.value) @@ st.heap],
                        e, n - 1)

\* evolve without its first check: a negative count runs an empty range.
EvolveCall_no_negative_check(e, time_steps) ==
    LET st == [raised |-> None, self |-> self, heap |-> heap]
        steps == PyToInt(time_steps)
    IN  IF steps.raised # None
          THEN [st EXCEPT !.raised = steps.raised]
          ELSE evolve_loop(st, e, steps.value)

\* evolve starting every call from the initial record.
EvolveCall_from_initial(e, time_steps) ==
    LET st == [raised |-> None,
               self |-> [self EXCEPT ![e].current_configuration = self[e].initial],
               heap |-> heap]
        steps == PyToInt(time_steps)
    IN  IF PyLessThanZero(time_steps).value
          THEN [st EXCEPT !.raised = InvalidStepCount, !.self = self]
          ELSE evolve_loop(st, e, steps.value)

\* evolve with range(time_steps + 1): one step more than asked.
EvolveCall_one_more_step(e, time_steps) ==
    LET st == [raised |-> None, self |-> self, heap |-> heap]
        steps == PyToInt(time_steps)
    IN  IF PyLessThanZero(time_steps).value
          THEN [st EXCEPT !.raised = InvalidStepCount]
          ELSE evolve_loop(st, e, steps.value + 1)

\* evolve with current_configuration an attribute of the class: every engine
\* steps from the configuration the first engine holds.
EvolveCall_shared_current(e, time_steps) ==
    LET first == IF "a" \in DOMAIN self THEN "a" ELSE e
        st == [raised |-> None,
               self |-> [self EXCEPT ![e].current_configuration =
                                         self[first].current_configuration],
               heap |-> heap]
        steps == PyToInt(time_steps)
    IN  IF PyLessThanZero(time_steps).value
          THEN [st EXCEPT !.raised = InvalidStepCount, !.self = self]
          ELSE evolve_loop(st, e, steps.value)

\* self.evolve(time_steps): the outcome as [raised, self, heap].
EvolveCall(e, time_steps) ==
    LET st == [raised |-> None, self |-> self, heap |-> heap]
        negative == PyLessThanZero(time_steps)
        steps == PyToInt(time_steps)
    IN  IF negative.raised # None
          THEN [st EXCEPT !.raised = negative.raised]
          ELSE IF negative.value
            THEN [st EXCEPT !.raised = InvalidStepCount]
            ELSE IF steps.raised # None
              THEN [st EXCEPT !.raised =
                       IF steps.raised.type = "ValueError" THEN InvalidStepCount
                                                           ELSE steps.raised]
              ELSE evolve_loop(st, e, steps.value)

(***************************** inputs drawn ********************************)

\* Lists of length 0..MaxLen over the cells.
ListsOver(cells) == UNION {[1..n -> cells] : n \in 0..MaxLen}

\* Cell values a caller may write: the three states and one that is none.
CellInputs == {0, 1, 2, 3}

\* Rule numbers outside [0, MaxRule], up to RuleMargin away from it.
BadRules == ((0 - RuleMargin)..-1) \cup ((MaxRule + 1)..(MaxRule + RuleMargin))

\* Rule numbers the engine specification draws: all-zero, shift (the output
\* is the left neighbour), sum modulo 3, all-two, and those out of range.
RuleSamples == {0, 377, 4069, MaxRule} \cup BadRules

\* Values given as time_steps besides the integers -2..MaxSteps: those no
\* int() accepts, and the floats 1.5 and -0.5.
NotIntegers == {PyVal("str", 0), PyVal("NoneType", 0), PyVal("nan", 0), PyVal("inf", 1)}

OddSteps == NotIntegers \cup {PyVal("float", 3), PyVal("float", -1)}

StepInputs == {PyInt(n) : n \in -2..MaxSteps} \cup OddSteps

\* The history an evolve call would leave stays within the bound.
WithinSteps(st, e) == Len(st.self[e].spacetime) <= MaxSteps + 1

(******************************** actions **********************************)

\* e = TriStateCA(rule_number, C)
New(e, rule_number) ==
    /\ e \notin DOMAIN self
    /\ \E out \in {InitCall(e, rule_number)} :
           /\ raised' = out.raised
           /\ self' = out.self
           /\ heap' = out.heap
           /\ built' = IF out.raised = None
                         THEN (e :> <<rule_number, heap[CallerRef]>>) @@ built
                         ELSE built
           /\ log' = IF out.raised = None THEN (e :> <<>>) @@ log ELSE log
    /\ UNCHANGED <<arg, ret, frame>>

\* e.evolve(time_steps)
EvolveStep(e, time_steps) ==
    /\ e \in DOMAIN self
    /\ \E out \in {EvolveCall(e, time_steps)} :
           /\ WithinSteps(out, e)
           /\ raised' = out.raised
           /\ self' = out.self
           /\ heap' = out.heap
    /\ UNCHANGED <<built, arg, ret, frame>>

Evolve(e, time_steps) == EvolveStep(e, time_steps) /\ UNCHANGED log

\* e.evolve(n) that returns, entered in e's log.
EvolveLogged(e, n) ==
    /\ e \in DOMAIN self
    /\ Len(log[e]) < MaxCalls
    /\ EvolveStep(e, PyInt(n))
    /\ raised' = None
    /\ log' = [log EXCEPT ![e] = Append(@, n)]

\* C[i] = v, by the caller
SetItem(i, v) ==
    /\ i \in 0..(Len(heap[CallerRef]) - 1)
    /\ heap' = [heap EXCEPT ![CallerRef][i + 1] = v]
    /\ UNCHANGED <<self, raised, built, log, arg, ret, frame>>

(************************ one engine and its caller ************************)

Init ==
    /\ heap \in {(CallerRef :> c) : c \in ListsOver(CellInputs)}
    /\ self = <<>>
    /\ raised = None
    /\ built = <<>>
    /\ log = <<>>
    /\ arg = 0
    /\ ret = Pending
    /\ frame = NoFrame

Construct == "a" \notin DOMAIN self /\ \E r \in RuleSamples : New("a", r)

Advance == \E x \in StepInputs : Evolve("a", x)

Next == Construct \/ Advance

Spec == Init /\ [][Next]_vars

(************ one engine, a caller that goes on changing its list **********)

Mutate == \E i \in 0..(MaxLen - 1), v \in CellInputs : SetItem(i, v)

NextCaller == Construct \/ Advance \/ Mutate

SpecCaller == Init /\ [][NextCaller]_vars

(******************** the decoder alone, every rule number *****************)

\* Every rule number, and those out of range.
RuleInputs == (0..MaxRule) \cup BadRules

NoCaller == (CallerRef :> <<>>)

InitTable ==
    /\ arg \in RuleInputs
    /\ ret = Pending
    /\ heap = NoCaller
    /\ self = <<>>
    /\ raised = None
    /\ built = <<>>
    /\ log = <<>>
    /\ frame = NoFrame

\* ret = lookup_table(arg)
CallLookupTable ==
    /\ ret = Pending
    /\ ret' = lookup_table(arg)
    /\ UNCHANGED <<heap, self, raised, built, log, arg, frame>>

NextTable == CallLookupTable

SpecTable == InitTable /\ [][NextTable]_vars

(************** one engine, every rule number, its first step **************)

InitRules ==
    /\ heap \in {(CallerRef :> c) : c \in ListsOver({0, 1, 2})}
    /\ self = <<>>
    /\ raised = None
    /\ built = <<>>
    /\ log = <<>>
    /\ arg = 0
    /\ ret = Pending
    /\ frame = NoFrame

ConstructAny == "a" \notin DOMAIN self /\ \E r \in RuleInputs : New("a", r)

\* The first evolve(1) of a fresh engine.
StepOnce ==
    /\ "a" \in DOMAIN self
    /\ log["a"] = <<>>
    /\ EvolveLogged("a", 1)

NextRules == ConstructAny \/ StepOnce

SpecRules == InitRules /\ [][NextRules]_vars

(**************** two engines built from the same list *********************)

\* Rules of the two-engine specification: shift and sum modulo 3.
PairRules == {377, 4069}

InitPair == InitRules

ConstructPair == \E e \in Engines \ DOMAIN self : \E r \in PairRules : New(e, r)

AdvancePair == \E e \in DOMAIN self : \E n \in 0..MaxSteps : EvolveLogged(e, n)

NextPair == ConstructPair \/ AdvancePair

SpecPair == InitPair /\ [][NextPair]_vars

(******************* rule_in_base alone, statement by statement ************)

\* The rule numbers and bases given to rule_in_base: every integer base
\* from -1 to MaxBase, a float and a string.
BaseInputs == {PyInt(b) : b \in -1..MaxBase} \cup {PyVal("float", 5), PyVal("str", 0)}

InitBase ==
    /\ frame \in [pc : {"enter"}, rule_number : 0..MaxNumber, base : BaseInputs,
                  key_number : {0, Len(neighborhoods)},
                  rule_number_in_base : {<<>>}, dividend : {0}, quotient : {0},
                  raised : {None}]
    /\ heap = NoCaller
    /\ self = <<>>
    /\ raised = None
    /\ built = <<>>
    /\ log = <<>>
    /\ arg = 0
    /\ ret = Pending

\* The check of base, then the three assignments before the loop.
BaseEnter ==
    /\ frame.pc = "enter"
    /\ frame' = IF frame.base.kind # "int" \/ frame.base.val < 0
                  THEN [frame EXCEPT !.pc = "raised", !.raised = InvalidBase]
                  ELSE [frame EXCEPT !.pc = "loop",
                                     !.rule_number_in_base = <<>>,
                                     !.dividend = frame.rule_number,
                                     !.quotient = frame.rule_number]
    /\ UNCHANGED <<heap, self, raised, built, log, arg, ret>>

\* One iteration of the while loop: the division raises when base is 0.
BaseLoop ==
    /\ frame.pc = "loop"
    /\ frame.quotient >= frame.base.val
    /\ Len(frame.rule_number_in_base) < MaxDigits
    /\ frame' = IF frame.base.val = 0
                  THEN [frame EXCEPT !.pc = "raised", !.raised = ZeroDivisionError]
                  ELSE [frame EXCEPT !.quotient = frame.dividend \div frame.base.val,
                                     !.rule_number_in_base =
                                         <<frame.dividend % frame.base.val>> \o @,
                                     !.dividend = frame.dividend \div frame.base.val]
    /\ UNCHANGED <<heap, self, raised, built, log, arg, ret>>

\* The loop is left: the last insert, the padding and the return.
BaseReturn ==
    /\ frame.pc = "loop"
    /\ frame.quotient < frame.base.val
    /\ frame' = [frame EXCEPT
                   !.pc = "returned",
                   !.rule_number_in_base =
                       Zeros(frame.key_number - (Len(@) + 1)) \o <<frame.quotient>> \o @]
    /\ UNCHANGED <<heap, self, raised, built, log, arg, ret>>

NextBase == BaseEnter \/ BaseLoop \/ BaseReturn

SpecBase == InitBase /\ [][NextBase]_vars

(******************************** claims ***********************************)

\* The rule number an engine was built with, and its table as decoded anew.
RuleOf(e) == built[e][1]

\* A list is valid when each of its cells is one of the states 0, 1, 2.
ValidConfiguration(c) == \A k \in 1..Len(c) : c[k] \in 0..2

\* The value of a digit sequence read as a base-3 numeral, most significant
\* digit first.
RECURSIVE NumeralValue(_)
NumeralValue(digits) ==
    IF digits = <<>> THEN 0
    ELSE 3 * NumeralValue(SubSeq(digits, 1, Len(digits) - 1)) + digits[Len(digits)]

\* C1: one step is synchronous with a periodic boundary: after the first
\* evolve(1) of an engine built with rule r, cell i of the new configuration
\* is lookup_table(r) at (old[(i-1) mod L], old[i]), old the configuration
\* before the step, and the new configuration is the history's new entry.
C1_StepIsSynchronousPeriodic ==
    [][StepOnce =>
        LET old == Current("a")
            L == Len(old)
            table == lookup_table(RuleOf("a")).value
        IN  /\ raised' = None
            /\ Len(Current("a")') = L
            /\ \A i \in 0..(L - 1) :
                   Current("a")'[i + 1] = table[<<old[((i - 1) % L) + 1], old[i + 1]>>]
            /\ History("a")' = Append(History("a"), Current("a")')]_vars

\* C1 witness: under the shift rule 377 the step has turned [1, 2] into
\* [2, 1]: cell 0 took the value of cell L-1.
C1_Witness ==
    /\ "a" \in DOMAIN self
    /\ RuleOf("a") = 377
    /\ History("a") = << <<1, 2>>, <<2, 1>> >>
    /\ Current("a") = <<2, 1>>

\* C2: the table lookup_table(r) returns, read in the canonical order of
\* the neighborhoods, is the 9-digit base-3 numeral of r, most significant
\* digit first.  (The numeral's value gives r back, so two rule numbers
\* with the same table are equal.)
C2_TableIsBase3Numeral ==
    ret.raised = None =>
        /\ \A i \in 1..Len(neighborhoods) : neighborhoods[i] \in DOMAIN ret.value
        /\ NumeralValue([i \in 1..Len(neighborhoods) |-> ret.value[neighborhoods[i]]]) = arg

\* C2 witness: lookup_table(4069) has returned the table of the sum modulo 3.
C2_Witness ==
    /\ ret.raised = None
    /\ arg = 4069
    /\ \A l \in 0..2, c \in 0..2 : ret.value[<<l, c>>] = (l + c) % 3

\* C3: the history is append-only: an evolve(n) with an integer n >= 0
\* returns, leaves a history n entries longer whose first entries are the
\* history before the call, cell by cell, and leaves the initial record as
\* it was.
C3_HistoryAppendOnly ==
    [][\A e \in DOMAIN self : \A n \in 0..MaxSteps :
          Evolve(e, PyInt(n)) =>
              /\ raised' = None
              /\ Len(History(e)') = Len(History(e)) + n
              /\ SubSeq(History(e)', 1, Len(History(e))) = History(e)
              /\ Initial(e)' = Initial(e)]_vars

\* C3 witness: an engine whose history has grown by MaxSteps entries, the
\* last call having returned.
C3_Witness ==
    /\ "a" \in DOMAIN self
    /\ Len(History("a")) = MaxSteps + 1
    /\ Len(Current("a")) = MaxLen
    /\ raised = None

\* C4: evolve with a negative integer raises InvalidStepCount and changes
\* nothing: the engine's attributes, every list, and so its history, current
\* configuration and initial record are those before the call.
C4_NegativeStepsRejected ==
    [][\A e \in DOMAIN self : \A n \in -2..-1 :
          Evolve(e, PyInt(n)) =>
              /\ raised' = InvalidStepCount
              /\ self' = self
              /\ heap' = heap
              /\ View(e)' = View(e)]_vars

\* C4 witness: an engine that has stepped, then a call that raised
\* InvalidStepCount.
C4_Witness ==
    /\ "a" \in DOMAIN self
    /\ Len(History("a")) > 1
    /\ raised = InvalidStepCount

\* C5, as claimed: evolve with a value no int() accepts (a non-numeric
\* string, None, a NaN, an infinity) raises InvalidStepCount, no other
\* exception, and changes nothing.
C5_NotIntegerRaisesInvalidStepCount ==
    [][\A e \in DOMAIN self : \A x \in NotIntegers :
          Evolve(e, x) =>
              /\ raised' = InvalidStepCount
              /\ self' = self
              /\ heap' = heap]_vars

\* C6, as claimed: a step that is not this engine's own call (the caller
\* changing its list in place, another engine built from the same list or
\* evolved) leaves this engine's history and initial record as they were.
C6_EngineHoldsCopies ==
    [][\A e \in DOMAIN self :
          (\/ \E i \in 0..(MaxLen - 1), v \in CellInputs : SetItem(i, v)
           \/ \E f \in Engines \ {e} :
                 \/ \E r \in RuleSamples : New(f, r)
                 \/ \E x \in StepInputs : Evolve(f, x))
          => /\ History(e)' = History(e)
             /\ Initial(e)' = Initial(e)]_vars

\* C7: stepping composes: of two engines built with the same rule from the
\* same configuration, the one after evolve(n1) then evolve(n2) and the one
\* after the single evolve(n1 + n2) have the same history and the same
\* current configuration.
C7_SteppingComposes ==
    \A e \in DOMAIN self : \A f \in DOMAIN self :
        (/\ built[e] = built[f]
         /\ Len(log[e]) = 2
         /\ Len(log[f]) = 1
         /\ log[e][1] + log[e][2] = log[f][1])
        => /\ History(e) = History(f)
           /\ Current(e) = Current(f)

\* C7 witness: engine a after evolve(1), evolve(1) and engine b after
\* evolve(2), both built with the shift rule from [1, 2].
C7_Witness ==
    /\ DOMAIN self = Engines
    /\ built["a"] = <<377, <<1, 2>> >>
    /\ built["b"] = built["a"]
    /\ log["a"] = <<1, 1>>
    /\ log["b"] = <<2>>
    /\ History("a") = << <<1, 2>>, <<2, 1>>, <<1, 2>> >>
    /\ History("b") = History("a")

\* C8: right after construction the history is exactly [C] and the current
\* configuration equals C: every rule number in [0, MaxRule] builds an
\* engine from a valid list C, and an engine not yet evolved shows a history
\* of length 1 whose only entry is C, and the current configuration C.
C8_FreshHistoryIsInitial ==
    /\ ("a" \notin DOMAIN self /\ ValidConfiguration(heap[CallerRef])) =>
          \A r \in 0..MaxRule : InitCall("a", r).raised = None
    /\ \A e \in DOMAIN self :
          log[e] = <<>> =>
              /\ History(e) = <<built[e][2]>>
              /\ Current(e) = built[e][2]
              /\ Len(History(e)) = 1

\* C8 witness: the engine just built with rule 19682 from [2, 0].
C8_Witness ==
    /\ "a" \in DOMAIN self
    /\ log["a"] = <<>>
    /\ built["a"] = <<MaxRule, <<2, 0>> >>
    /\ History("a") = << <<2, 0>> >>
    /\ Current("a") = <<2, 0>>

\* C9: construction from a list with a cell outside {0, 1, 2}, at any
\* position and with any rule number, raises InvalidConfiguration and
\* creates nothing.
C9_InvalidConfigurationRejected ==
    [][(Construct /\ ~ValidConfiguration(heap[CallerRef])) =>
          /\ raised' = InvalidConfiguration
          /\ self' = self
          /\ heap' = heap]_vars

\* C9 witness: the call has raised InvalidConfiguration for [0, 3], whose
\* bad cell is the last, and there is no engine.
C9_Witness ==
    /\ raised = InvalidConfiguration
    /\ self = <<>>
    /\ heap[CallerRef] = <<0, 3>>

\* C10: a rule number outside [0, MaxRule] is rejected: for every such r
\* drawn, lookup_table(r) raises InvalidRule and returns no table, and the
\* construction of an engine with r from a valid list raises InvalidRule
\* and creates nothing.
C10_InvalidRuleRejected ==
    [][\A r \in BadRules :
          /\ lookup_table(r) = Raises(InvalidRule)
          /\ (New("a", r) /\ ValidConfiguration(heap[CallerRef])) =>
                 /\ raised' = InvalidRule
                 /\ self' = self
                 /\ heap' = heap]_vars

\* C10 witness: a construction from a valid list of two cells has raised
\* InvalidRule and there is no engine.
C10_Witness ==
    /\ raised = InvalidRule
    /\ self = <<>>
    /\ Len(heap[CallerRef]) = 2
    /\ ValidConfiguration(heap[CallerRef])

\* C11: in every reachable engine state the current configuration equals
\* the last element of the history.
C11_CurrentIsLastOfHistory ==
    \A e \in DOMAIN self : Current(e) = History(e)[Len(History(e))]

\* The nine neighborhoods as a set.
CanonicalNeighborhoods == {<<l, c>> : l, c \in 0..2}

\* C12: the table built for any rule number in [0, MaxRule] is total: the
\* call returns, the keys are exactly the nine neighborhoods, nine entries,
\* and every output is 0, 1 or 2.
C12_TableIsTotal ==
    (ret # Pending /\ arg \in 0..MaxRule) =>
        /\ ret.raised = None
        /\ DOMAIN ret.value = CanonicalNeighborhoods
        /\ Cardinality(DOMAIN ret.value) = 9
        /\ \A k \in DOMAIN ret.value : ret.value[k] \in 0..2

\* C12 witness: the table of rule 5, "12" in base 3, has been built: nine
\* entries, (2, 1) -> 1, (2, 2) -> 2 and 0 for the padded seven.
C12_Witness ==
    /\ arg = 5
    /\ ret # Pending
    /\ ret.raised = None
    /\ Cardinality(DOMAIN ret.value) = 9
    /\ ret.value[<<2, 1>>] = 1
    /\ ret.value[<<2, 2>>] = 2
    /\ ret.value[<<0, 0>>] = 0

\* C13: evolve(0) is a no-op that succeeds: in every reachable engine state
\* the call returns and leaves the engine and every list as they are, and an
\* engine that has only been given evolve(0) still has a history of length 1
\* holding the initial configuration.
C13_EvolveZeroIsNoOp ==
    \A e \in DOMAIN self :
        /\ EvolveCall(e, PyInt(0)) = [raised |-> None, self |-> self, heap |-> heap]
        /\ (\A k \in 1..Len(log[e]) : log[e][k] = 0) =>
               /\ Len(History(e)) = 1
               /\ History(e) = <<built[e][2]>>
               /\ Current(e) = built[e][2]
               /\ Initial(e) = built[e][2]

\* C13 witness: the engine built with the shift rule from [1, 2] has been
\* given evolve(0) twice and still has the one-entry history.
C13_Witness ==
    /\ "a" \in DOMAIN self
    /\ log["a"] = <<0, 0>>
    /\ built["a"] = <<377, <<1, 2>> >>
    /\ History("a") = << <<1, 2>> >>
    /\ Current("a") = <<1, 2>>

\* C14: the table of rule 0 has nine entries and maps every neighborhood
\* to 0.
C14_RuleZeroTableAllZero ==
    (ret # Pending /\ arg = 0) =>
        /\ ret.raised = None
        /\ Cardinality(DOMAIN ret.value) = 9
        /\ \A l, c \in 0..2 : <<l, c>> \in DOMAIN ret.value /\ ret.value[<<l, c>>] = 0

\* C14 witness: lookup_table(0) has returned a table with (1, 2) -> 0.
C14_Witness ==
    /\ arg = 0
    /\ ret # Pending
    /\ ret.raised = None
    /\ <<1, 2>> \in DOMAIN ret.value
    /\ ret.value[<<1, 2>>] = 0

\* C15: under rule 0 the history is the initial configuration C followed by
\* configurations of Len(C) zeros, one for every step taken.
C15_RuleZeroHistory ==
    \A e \in DOMAIN self :
        RuleOf(e) = 0 =>
            /\ History(e)[1] = built[e][2]
            /\ \A t \in 2..Len(History(e)) : History(e)[t] = Zeros(Len(built[e][2]))
            /\ Len(History(e)) > 1 => Current(e) = Zeros(Len(built[e][2]))

\* C15 witness: rule 0 from [1, 2] after two steps: [[1, 2], [0, 0], [0, 0]].
C15_Witness ==
    /\ "a" \in DOMAIN self
    /\ built["a"] = <<0, <<1, 2>> >>
    /\ History("a") = << <<1, 2>>, <<0, 0>>, <<0, 0>> >>
    /\ raised = None

\* C16: two engines built with the same rule number from equal initial
\* configurations and given the same evolve calls have equal histories and
\* equal current configurations after every call.
C16_Deterministic ==
    \A e, f \in DOMAIN self :
        (built[e] = built[f] /\ log[e] = log[f]) =>
            /\ History(e) = History(f)
            /\ Current(e) = Current(f)

\* C16 witness: both engines built with the sum rule from [1, 2] have been
\* given evolve(1) twice, and show the same three-entry history.
C16_Witness ==
    /\ DOMAIN self = Engines
    /\ built["a"] = <<4069, <<1, 2>> >>
    /\ built["b"] = built["a"]
    /\ log["a"] = <<1, 1>>
    /\ log["b"] = <<1, 1>>
    /\ Len(History("a")) = 3
    /\ History("b") = History("a")
    /\ Current("a") # <<1, 2>>

\* C17: no engine state is stuck: every neighborhood formed from the current
\* configuration is a key of the engine's table, so evolve(n) with any
\* n >= 0 returns, and no call has raised KeyError.
C17_LookupNeverMisses ==
    /\ raised # KeyError
    /\ \A e \in DOMAIN self :
          /\ \A i \in 0..(Len(Current(e)) - 1) :
                 <<PyIndex(Current(e), i - 1), PyIndex(Current(e), i)>>
                     \in DOMAIN self[e].lookup_table
          /\ \A n \in 0..MaxSteps : EvolveCall(e, PyInt(n)).raised = None

\* C17 witness: the engine of the sum rule has taken MaxSteps steps from a
\* list of MaxLen cells and the last call returned.
C17_Witness ==
    /\ "a" \in DOMAIN self
    /\ RuleOf("a") = 4069
    /\ Len(Current("a")) = MaxLen
    /\ Len(History("a")) = MaxSteps + 1
    /\ raised = None

\* C18: in every reachable engine state every entry of the history and the
\* current configuration have the length of the initial configuration, and
\* every cell is 0, 1 or 2.
C18_ConfigurationsWellFormed ==
    \A e \in DOMAIN self :
        /\ \A t \in 1..Len(History(e)) :
               /\ Len(History(e)[t]) = Len(built[e][2])
               /\ ValidConfiguration(History(e)[t])
        /\ Len(Current(e)) = Len(built[e][2])
        /\ ValidConfiguration(Current(e))

\* C19: rule_in_base terminates and returns for every rule number >= 0 and
\* every integer base >= 1: each iteration of its while loop leaves a
\* quotient strictly smaller than the one it found, and the quotient is
\* never negative, so the loop is left.
C19_LoopTerminates ==
    [][(BaseLoop /\ frame.base.val >= 1) =>
          /\ frame'.pc = "loop"
          /\ frame'.quotient >= 0
          /\ frame'.quotient < frame.quotient]_vars

\* C20: rule_in_base rejects every base that is not a positive integer,
\* base 0 included, with "base must be a positive int" before the loop is
\* entered, and raises nothing else for such a base.
C20_NotPositiveBaseRejected ==
    (frame.pc # "enter" /\ ~(frame.base.kind = "int" /\ frame.base.val >= 1)) =>
        /\ frame.pc = "raised"
        /\ frame.raised = InvalidBase
        /\ frame.rule_number_in_base = <<>>

====
